---- MODULE Spec2Model ----
(***************************************************************************)
(* The sort-imports rule of deno_lint (src/rules/sort_imports.rs).        *)
(*                                                                         *)
(* One rule invocation (SortImports::lint_module) is modelled: the        *)
(* visitor is constructed, visit_import_decl is called once per import    *)
(* statement in source order, and sort_line_imports runs once afterwards. *)
(*                                                                         *)
(* Conventions.  Rust's 0-based indices are 1-based here (TLA+ sequences). *)
(* Option<T> is a sequence of length 0 (None) or 1 (Some).  A Span is the  *)
(* pair [stmt, spec]: the statement's position in the module and, for the  *)
(* span of one specifier's local identifier, the specifier's position in   *)
(* the statement (spec = 0 is the span of the whole statement).  A String  *)
(* is a TLA+ string, compared as Rust compares it, through its bytes.      *)
(***************************************************************************)
EXTENDS Integers, Sequences, FiniteSets, TLC

VARIABLES
    options,       \* SortImportsVisitor.options
    line_imports,  \* SortImportsVisitor.line_imports
    diagnostics,   \* the sink behind Context::add_diagnostic, in call order
    module,        \* the import statements visited so far, in source order
    pc             \* "visit" | "done" | "panicked"

vars == <<options, line_imports, diagnostics, module, pc>>

----------------------------------------------------------------------------
(* Bounds of the model *)

\* import statements in one module
MaxStmts == 3

\* specifiers in one module, over all its statements
MaxSpecifiers == 4

\* entries of the default token array that a configuration replaces
MaxOverrides == 1

----------------------------------------------------------------------------
(* Option<T> *)

NoneOpt == <<>>

Some(v) == <<v>>

IsSome(o) == Len(o) = 1

Unwrap(o) == o[1]

----------------------------------------------------------------------------
(* Strings *)

\* local identifier names that occur in the modelled modules
Names == {"B", "a", "aB", "b"}

AsciiUpper == "ABCDEFGHIJKLMNOPQRSTUVWXYZ"

AsciiLower == "abcdefghijklmnopqrstuvwxyz"

AsciiDigit == "0123456789"

\* the position of the one-character string c in the string table, 0 if it
\* is not there
IndexIn(table, c) ==
    IF \E i \in 1..Len(table) : SubSeq(table, i, i) = c
    THEN CHOOSE i \in 1..Len(table) : SubSeq(table, i, i) = c
    ELSE 0

\* the byte of a one-character string (the ASCII characters of identifiers)
ByteOf(c) ==
    CASE IndexIn(AsciiUpper, c) > 0 -> 64 + IndexIn(AsciiUpper, c)
      [] IndexIn(AsciiLower, c) > 0 -> 96 + IndexIn(AsciiLower, c)
      [] IndexIn(AsciiDigit, c) > 0 -> 47 + IndexIn(AsciiDigit, c)
      [] c = "$"                    -> 36
      [] c = "_"                    -> 95

\* the bytes of a String
Bytes(s) == [i \in 1..Len(s) |-> ByteOf(SubSeq(s, i, i))]

\* u8::to_ascii_lowercase
ByteToAsciiLowercase(c) == IF c >= 65 /\ c <= 90 THEN c + 32 ELSE c

\* str::to_ascii_lowercase, on the bytes
ToAsciiLowercase(bs) == [i \in 1..Len(bs) |-> ByteToAsciiLowercase(bs[i])]

\* Ord for String: lexicographic on the bytes, a proper prefix is smaller
RECURSIVE StrLess(_, _)
StrLess(x, y) ==
    IF Len(y) = 0 THEN FALSE
    ELSE IF Len(x) = 0 THEN TRUE
    ELSE IF x[1] # y[1] THEN x[1] < y[1]
    ELSE StrLess(Tail(x), Tail(y))

\* Vec::sort of the two-element vector <<x, y>> (stable)
SortPair(x, y) == IF StrLess(y, x) THEN <<y, x>> ELSE <<x, y>>

----------------------------------------------------------------------------
(* ImportTypes and the configuration helpers *)

ImportTypes == {"None", "All", "Multiple", "Single"}

Tokens == {"none", "all", "multiple", "single", "other"}

str_to_import_types(import_type_str) ==
    CASE import_type_str = "none"     -> "None"
      [] import_type_str = "all"      -> "All"
      [] import_type_str = "multiple" -> "Multiple"
      [] import_type_str = "single"   -> "Single"
      [] OTHER                        -> "None"

import_types_to_string(import_type) ==
    CASE import_type = "None"     -> "none"
      [] import_type = "All"      -> "all"
      [] import_type = "Multiple" -> "multiple"
      [] import_type = "Single"   -> "single"

config_to_enum(config) == [i \in 1..Len(config) |-> str_to_import_types(config[i])]

\* DefaultConfig with a token that str_to_import_types does not recognise
DefaultConfigMisspelt == <<"none", "all", "multiple", "singel">>

\* the tokens SortImportsVisitor::default passes to config_to_enum
DefaultConfig == <<"none", "all", "multiple", "single">>

\* the token arrays a configuration may hold, within MaxOverrides
ConfigArrays ==
    {c \in [1..4 -> Tokens] :
        Cardinality({i \in 1..4 : c[i] # DefaultConfig[i]}) <= MaxOverrides}

ImportIdent(import_decl, span, import_type) ==
    [import_decl |-> import_decl, span |-> span, import_type |-> import_type]

Span(stmt, spec) == [stmt |-> stmt, spec |-> spec]

----------------------------------------------------------------------------
(* The import statements handed to the visitor *)

Specifier(kind, local) == [kind |-> kind, local |-> local]

\* ImportDeclaration of ECMAScript: an optional default binding, followed by
\* nothing, by one namespace import or by a list of named imports
ImportShapes(n) ==
    LET heads  == {<<>>} \cup {<<Specifier("Default", d)>> : d \in Names}
        named  == UNION {[1..k -> {Specifier("Named", m) : m \in Names}] : k \in 0..n}
        tails  == named \cup {<<Specifier("Namespace", m)>> : m \in Names}
    IN  {s \in {h \o t : h \in heads, t \in tails} : Len(s) <= n}

\* the local names a statement binds
BoundNames(import_stmt) == {import_stmt[k].local : k \in 1..Len(import_stmt)}

\* the local names the statements bind
ModuleNames(stmts) == UNION {BoundNames(stmts[i]) : i \in 1..Len(stmts)}

\* the statements of up to n specifiers that may follow stmts in a module:
\* a module binds a name once (a second binding is an early error)
ImportStmts(stmts, n) ==
    {s \in ImportShapes(n) :
        /\ Cardinality(BoundNames(s)) = Len(s)
        /\ BoundNames(s) \cap ModuleNames(stmts) = {}}

RECURSIVE SpecifierCount(_)
SpecifierCount(stmts) ==
    IF stmts = <<>> THEN 0 ELSE Len(Head(stmts)) + SpecifierCount(Tail(stmts))

----------------------------------------------------------------------------
(* SortImportsVisitor *)

\* SortImportsVisitor::default
DefaultOptions ==
    [ignore_case              |-> FALSE,
     ignore_declaration_sort  |-> FALSE,
     ignore_member_sort       |-> FALSE,
     member_syntax_sort_order |-> config_to_enum(DefaultConfig)]

\* the values a SortImportsOptions can hold
SortImportsOptions ==
    [ignore_case              : BOOLEAN,
     ignore_declaration_sort  : BOOLEAN,
     ignore_member_sort       : BOOLEAN,
     member_syntax_sort_order : {config_to_enum(c) : c \in ConfigArrays}]

\* the closure get_sortable_name, giving the bytes that are compared
get_sortable_name(opts, specifier) ==
    IF opts.ignore_case
    THEN ToAsciiLowercase(Bytes(specifier.import_decl))
    ELSE Bytes(specifier.import_decl)

\* Iterator::position over member_syntax_sort_order
get_member_param_grp_index(opts, variant) ==
    LET order == opts.member_syntax_sort_order
        hits  == {i \in 1..Len(order) : order[i] = variant}
    IN  IF hits = {} THEN NoneOpt
        ELSE Some(CHOOSE i \in hits : \A j \in hits : i <= j)

\* PairUnsorted comparing with "not less" in place of the sort: a pair of
\* equal names counts as unsorted
PairNotAscending(identifier_name, reported_identifier) ==
    ~StrLess(identifier_name, reported_identifier)

\* the test of lines 162-166: the pair, sorted, does not start with the
\* current name
PairUnsorted(identifier_name, reported_identifier) ==
    SortPair(reported_identifier, identifier_name)[1] # identifier_name

\* the result of get_err_index before any iteration
ErrInit ==
    [panicked                 |-> FALSE,
     first_unsorted_index     |-> NoneOpt,
     error_indices            |-> <<>>,
     unexpected_order_indices |-> <<>>]

\* the for loop of get_err_index from position index on; acc is what the
\* earlier iterations left.  A failed unwrap ends the loop with panicked set.
RECURSIVE ErrLoop(_, _, _, _, _, _)
ErrLoop(opts, import_specifiers, identifier_names, report_multiple, index, acc) ==
    LET len   == Len(import_specifiers)
        next  == ErrLoop(opts, import_specifiers, identifier_names,
                         report_multiple, index + 1, acc)
        cur_g == get_member_param_grp_index(opts, import_specifiers[index].import_type)
        nxt_g == get_member_param_grp_index(opts, import_specifiers[index + 1].import_type)
        alpha ==
            IF index # len
               /\ PairUnsorted(identifier_names[index], identifier_names[index + 1])
            THEN LET hit == [acc EXCEPT
                               !.first_unsorted_index = Some(index + 1),
                               !.error_indices =
                                   IF IsSome(report_multiple)
                                   THEN Append(@, index + 1) ELSE @]
                 IN  IF IsSome(report_multiple)
                     THEN ErrLoop(opts, import_specifiers, identifier_names,
                                  report_multiple, index + 1, hit)
                     ELSE hit
            ELSE next
    IN  IF index > len THEN acc
        ELSE IF IsSome(report_multiple) /\ index # len
        THEN IF ~IsSome(cur_g) \/ ~IsSome(nxt_g)
             THEN [acc EXCEPT !.panicked = TRUE]
             ELSE IF Unwrap(cur_g) # Unwrap(nxt_g)
             THEN IF Unwrap(nxt_g) < Unwrap(cur_g)
                  THEN ErrLoop(opts, import_specifiers, identifier_names,
                               report_multiple, index + 1,
                               [acc EXCEPT !.unexpected_order_indices =
                                               Append(@, index + 1)])
                  ELSE next
             ELSE alpha
        ELSE alpha

\* get_err_index: the loop, then the tuple it returns, a vector that stayed
\* empty being returned as None
get_err_index(opts, import_specifiers, report_multiple) ==
    LET identifier_names ==
            [i \in 1..Len(import_specifiers) |->
                get_sortable_name(opts, import_specifiers[i])]
        r == ErrLoop(opts, import_specifiers, identifier_names, report_multiple,
                     1, ErrInit)
    IN  [panicked  |-> r.panicked,
         first     |-> r.first_unsorted_index,
         unsorted  |-> IF r.error_indices # <<>>
                       THEN Some(r.error_indices) ELSE NoneOpt,
         unordered |-> IF r.unexpected_order_indices # <<>>
                       THEN Some(r.unexpected_order_indices) ELSE NoneOpt]

\* one call of Context::add_diagnostic
Diagnostic(span, code, message) ==
    [span |-> span, code |-> code, message |-> message]

\* sort_import_decl: the diagnostics it adds, in call order
sort_import_decl(opts, import_specifiers) ==
    IF ~opts.ignore_member_sort
    THEN LET first == get_err_index(opts, import_specifiers, NoneOpt).first
         IN  IF IsSome(first)
             THEN <<Diagnostic(
                      import_specifiers[Unwrap(first)].span,
                      "sort-imports",
                      "Member '"
                        \o import_specifiers[Unwrap(first)].import_decl
                        \o "' of the import declaration should be sorted alphabetically")>>
             ELSE <<>>
    ELSE <<>>

\* UnsortedDiagnostics reporting the first unsorted record only, as the
\* member-order checker does
UnsortedDiagnosticsFirstOnly(imports, unsorted_import_indices) ==
    IF IsSome(unsorted_import_indices)
    THEN LET vec_n == Unwrap(unsorted_import_indices)
         IN  <<Diagnostic(imports[vec_n[1]].span, "sort-imports",
                          "Imports should be sorted alphabetically")>>
    ELSE <<>>

\* the first loop of sort_line_imports
UnsortedDiagnostics(imports, unsorted_import_indices) ==
    IF IsSome(unsorted_import_indices)
    THEN LET vec_n == Unwrap(unsorted_import_indices)
         IN  [k \in 1..Len(vec_n) |->
                Diagnostic(imports[vec_n[k]].span, "sort-imports",
                           "Imports should be sorted alphabetically")]
    ELSE <<>>

\* UnexpectedOrderDiagnostics naming the two kinds the other way round
UnexpectedOrderDiagnosticsSwapped(imports, unexpected_order_indices) ==
    IF IsSome(unexpected_order_indices)
    THEN LET indices == Unwrap(unexpected_order_indices)
         IN  [k \in 1..Len(indices) |->
                Diagnostic(imports[indices[k]].span, "sort-imports",
                           "Expected '"
                             \o import_types_to_string(imports[indices[k] - 1].import_type)
                             \o "' syntax before '"
                             \o import_types_to_string(imports[indices[k]].import_type)
                             \o "' syntax")]
    ELSE <<>>

\* the second loop of sort_line_imports
UnexpectedOrderDiagnostics(imports, unexpected_order_indices) ==
    IF IsSome(unexpected_order_indices)
    THEN LET indices == Unwrap(unexpected_order_indices)
         IN  [k \in 1..Len(indices) |->
                Diagnostic(imports[indices[k]].span, "sort-imports",
                           "Expected '"
                             \o import_types_to_string(imports[indices[k]].import_type)
                             \o "' syntax before '"
                             \o import_types_to_string(imports[indices[k] - 1].import_type)
                             \o "' syntax")]
    ELSE <<>>

\* sort_line_imports with its two loops in the other order
sort_line_imports_order_first(opts, imports) ==
    LET r == get_err_index(opts, imports, Some(TRUE))
    IN  IF r.panicked
        THEN [panicked |-> TRUE, added |-> <<>>]
        ELSE [panicked |-> FALSE,
              added    |-> UnexpectedOrderDiagnostics(imports, r.unordered)
                           \o UnsortedDiagnostics(imports, r.unsorted)]

\* sort_line_imports skipped when ignore_declaration_sort is set
sort_line_imports_gated(opts, imports) ==
    LET r == get_err_index(opts, imports, Some(TRUE))
    IN  IF opts.ignore_declaration_sort
        THEN [panicked |-> FALSE, added |-> <<>>]
        ELSE IF r.panicked
        THEN [panicked |-> TRUE, added |-> <<>>]
        ELSE [panicked |-> FALSE,
              added    |-> UnsortedDiagnostics(imports, r.unsorted)
                           \o UnexpectedOrderDiagnostics(imports, r.unordered)]

\* sort_line_imports: whether it panicked and the diagnostics it adds, in
\* call order
sort_line_imports(opts, imports) ==
    LET r == get_err_index(opts, imports, Some(TRUE))
    IN  IF r.panicked
        THEN [panicked |-> TRUE, added |-> <<>>]
        ELSE [panicked |-> FALSE,
              added    |-> UnsortedDiagnostics(imports, r.unsorted)
                           \o UnexpectedOrderDiagnostics(imports, r.unordered)]

\* SpecifierLoop, a named specifier always being given the type Multiple
RECURSIVE SpecifierLoopNamedMultiple(_, _, _, _)
SpecifierLoopNamedMultiple(specifiers, stmt, index, acc) ==
    IF index > Len(specifiers) THEN acc
    ELSE
    LET specifier == specifiers[index]
        named_type == "Multiple"
        step ==
            CASE specifier.kind = "Named" ->
                   [import_ident_vec |->
                       Append(acc.import_ident_vec,
                              ImportIdent(specifier.local, Span(stmt, index), named_type)),
                    import_ident |->
                       IF index = 1
                       THEN ImportIdent(specifier.local, Span(stmt, 0), named_type)
                       ELSE acc.import_ident]
              [] specifier.kind = "Default" ->
                   [import_ident_vec |-> acc.import_ident_vec,
                    import_ident |->
                       ImportIdent(specifier.local, Span(stmt, 0), "Single")]
              [] specifier.kind = "Namespace" ->
                   [acc EXCEPT !.import_ident =
                       ImportIdent(specifier.local, Span(stmt, 0), "All")]
    IN  SpecifierLoopNamedMultiple(specifiers, stmt, index + 1, step)

\* SpecifierLoop, every named specifier replacing import_ident, not only the first specifier of the statement
RECURSIVE SpecifierLoopLastWins(_, _, _, _)
SpecifierLoopLastWins(specifiers, stmt, index, acc) ==
    IF index > Len(specifiers) THEN acc
    ELSE
    LET specifier == specifiers[index]
        named_type == IF Len(specifiers) > 1 THEN "Multiple" ELSE "Single"
        step ==
            CASE specifier.kind = "Named" ->
                   [import_ident_vec |->
                       Append(acc.import_ident_vec,
                              ImportIdent(specifier.local, Span(stmt, index), named_type)),
                    import_ident |->
                       IF TRUE
                       THEN ImportIdent(specifier.local, Span(stmt, 0), named_type)
                       ELSE acc.import_ident]
              [] specifier.kind = "Default" ->
                   [import_ident_vec |-> acc.import_ident_vec,
                    import_ident |->
                       ImportIdent(specifier.local, Span(stmt, 0), "Single")]
              [] specifier.kind = "Namespace" ->
                   [acc EXCEPT !.import_ident =
                       ImportIdent(specifier.local, Span(stmt, 0), "All")]
    IN  SpecifierLoopLastWins(specifiers, stmt, index + 1, step)

\* SpecifierLoop, the default specifier being pushed to import_ident_vec as well
RECURSIVE SpecifierLoopDefaultMember(_, _, _, _)
SpecifierLoopDefaultMember(specifiers, stmt, index, acc) ==
    IF index > Len(specifiers) THEN acc
    ELSE
    LET specifier == specifiers[index]
        named_type == IF Len(specifiers) > 1 THEN "Multiple" ELSE "Single"
        step ==
            CASE specifier.kind = "Named" ->
                   [import_ident_vec |->
                       Append(acc.import_ident_vec,
                              ImportIdent(specifier.local, Span(stmt, index), named_type)),
                    import_ident |->
                       IF index = 1
                       THEN ImportIdent(specifier.local, Span(stmt, 0), named_type)
                       ELSE acc.import_ident]
              [] specifier.kind = "Default" ->
                   [import_ident_vec |-> Append(acc.import_ident_vec,
                              ImportIdent(specifier.local, Span(stmt, index), "Single")),
                    import_ident |->
                       ImportIdent(specifier.local, Span(stmt, 0), "Single")]
              [] specifier.kind = "Namespace" ->
                   [acc EXCEPT !.import_ident =
                       ImportIdent(specifier.local, Span(stmt, 0), "All")]
    IN  SpecifierLoopDefaultMember(specifiers, stmt, index + 1, step)

\* the for loop of handle_import_decl from position index on: acc holds
\* import_ident and import_ident_vec as the earlier iterations left them
RECURSIVE SpecifierLoop(_, _, _, _)
SpecifierLoop(specifiers, stmt, index, acc) ==
    IF index > Len(specifiers) THEN acc
    ELSE
    LET specifier == specifiers[index]
        named_type == IF Len(specifiers) > 1 THEN "Multiple" ELSE "Single"
        step ==
            CASE specifier.kind = "Named" ->
                   [import_ident_vec |->
                       Append(acc.import_ident_vec,
                              ImportIdent(specifier.local, Span(stmt, index), named_type)),
                    import_ident |->
                       IF index = 1
                       THEN ImportIdent(specifier.local, Span(stmt, 0), named_type)
                       ELSE acc.import_ident]
              [] specifier.kind = "Default" ->
                   [acc EXCEPT !.import_ident =
                       ImportIdent(specifier.local, Span(stmt, 0), "Single")]
              [] specifier.kind = "Namespace" ->
                   [acc EXCEPT !.import_ident =
                       ImportIdent(specifier.local, Span(stmt, 0), "All")]
    IN  SpecifierLoop(specifiers, stmt, index + 1, step)

\* handle_import_decl up to line 299: the record of the statement and its
\* member list
ClassifyImportDecl(specifiers, stmt) ==
    SpecifierLoop(specifiers, stmt, 1,
                  [import_ident     |-> ImportIdent("", Span(stmt, 0), "None"),
                   import_ident_vec |-> <<>>])

\* the diagnostics handle_import_decl adds for a statement (lines 301-303)
MemberDiagnostics(opts, specifiers, stmt) ==
    IF ~opts.ignore_declaration_sort
    THEN sort_import_decl(opts, ClassifyImportDecl(specifiers, stmt).import_ident_vec)
    ELSE <<>>

----------------------------------------------------------------------------
(* The rule invocation *)

\* the visitor as LintRule::lint_module constructs it: SortImportsVisitor::default
\* is the only constructor, and nothing writes options afterwards
Init ==
    /\ options = DefaultOptions
    /\ line_imports = <<>>
    /\ diagnostics = <<>>
    /\ module = <<>>
    /\ pc = "visit"

\* the visitor with any value of the three flags and the group order that
\* SortImportsVisitor::default builds: the behaviours of Spec and those a
\* visitor with other flags would have
InitFlags ==
    /\ options \in {o \in SortImportsOptions :
                       o.member_syntax_sort_order =
                           DefaultOptions.member_syntax_sort_order}
    /\ line_imports = <<>>
    /\ diagnostics = <<>>
    /\ module = <<>>
    /\ pc = "visit"

\* the visitor with any value a SortImportsOptions can hold, a group order
\* built by config_to_enum from other tokens included: a superset of the
\* behaviours of Spec, so what is invariant here is invariant of the program
InitAnyOptions ==
    /\ options \in SortImportsOptions
    /\ line_imports = <<>>
    /\ diagnostics = <<>>
    /\ module = <<>>
    /\ pc = "visit"

\* visit_import_decl / handle_import_decl on the next import statement
handle_import_decl(import_stmt) ==
    /\ pc = "visit"
    /\ Len(module) < MaxStmts
    /\ LET stmt == Len(module) + 1
       IN  /\ line_imports' =
                Append(line_imports, ClassifyImportDecl(import_stmt, stmt).import_ident)
           /\ diagnostics' =
                diagnostics \o MemberDiagnostics(options, import_stmt, stmt)
    /\ module' = Append(module, import_stmt)
    /\ UNCHANGED <<options, pc>>

\* the end of visit_module and the call of sort_line_imports in lint_module
SortLineImports ==
    /\ pc = "visit"
    /\ LET r == sort_line_imports(options, line_imports)
       IN  /\ diagnostics' = diagnostics \o r.added
           /\ pc' = IF r.panicked THEN "panicked" ELSE "done"
    /\ UNCHANGED <<options, line_imports, module>>

\* Visit::visit_import_decl, called with the next import statement of the module
visit_import_decl ==
    \E import_stmt \in ImportStmts(module, MaxSpecifiers - SpecifierCount(module)) :
        handle_import_decl(import_stmt)

Next ==
    \/ visit_import_decl
    \/ SortLineImports

\* the program
Spec == Init /\ [][Next]_vars

\* the program, were the three flags configurable
SpecFlags == InitFlags /\ [][Next]_vars

\* the program, were every field of the options configurable
SpecAnyOptions == InitAnyOptions /\ [][Next]_vars

----------------------------------------------------------------------------
(* Vocabulary of the properties *)

\* the comparison key of a name under the active case policy
Key(name) ==
    IF options.ignore_case THEN ToAsciiLowercase(Bytes(name)) ELSE Bytes(name)

\* the positions of the named specifiers of a statement, in source order
RECURSIVE NamedPositions(_, _)
NamedPositions(specifiers, from) ==
    IF from > Len(specifiers) THEN <<>>
    ELSE IF specifiers[from].kind = "Named"
         THEN <<from>> \o NamedPositions(specifiers, from + 1)
         ELSE NamedPositions(specifiers, from + 1)

\* the positions of the specifiers of one shape
PositionsOf(specifiers, kind) ==
    {k \in 1..Len(specifiers) : specifiers[k].kind = kind}

\* the string s starts with the string prefix
StartsWith(s, prefix) ==
    Len(s) >= Len(prefix) /\ SubSeq(s, 1, Len(prefix)) = prefix

IsMemberDiagnostic(d) == StartsWith(d.message, "Member '")

IsAlphabeticalDiagnostic(d) ==
    d.message = "Imports should be sorted alphabetically"

IsOrderDiagnostic(d) == StartsWith(d.message, "Expected '")

\* the member-order diagnostics in the sink that lie in statement i
MemberDiagnosticsAt(i) ==
    SelectSeq(diagnostics, LAMBDA d : IsMemberDiagnostic(d) /\ d.span.stmt = i)

\* the statement-order diagnostics in the sink, in the order they were added
StatementDiagnostics ==
    SelectSeq(diagnostics, LAMBDA d : ~IsMemberDiagnostic(d))

\* the member-order checker runs on every visited statement
MemberCheckRuns ==
    ~options.ignore_member_sort /\ ~options.ignore_declaration_sort

\* the adjacent pairs (k, k+1) of the members of statement i whose second key
\* is strictly less than the first, named by k
ViolatingMemberPairs(i) ==
    LET at == NamedPositions(module[i], 1)
    IN  {k \in 1..(Len(at) - 1) :
            StrLess(Key(module[i][at[k + 1]].local), Key(module[i][at[k]].local))}

\* the one diagnostic expected for statement i: at the second member of the
\* lowest violating pair, naming it
ExpectedMemberDiagnostic(i) ==
    LET at == NamedPositions(module[i], 1)
        k  == CHOOSE x \in ViolatingMemberPairs(i) :
                  \A y \in ViolatingMemberPairs(i) : x <= y
    IN  Diagnostic(Span(i, at[k + 1]), "sort-imports",
                   "Member '" \o module[i][at[k + 1]].local
                     \o "' of the import declaration should be sorted alphabetically")

----------------------------------------------------------------------------
(* C1 *)

\* C1: when the member-order checker runs, a statement gets a member-order
\* diagnostic iff some adjacent pair of its members has the second key
\* strictly less than the first; it is then exactly one diagnostic, at and
\* naming the second member of the lowest such pair.
C1_MemberOrder ==
    MemberCheckRuns =>
        \A i \in 1..Len(module) :
            MemberDiagnosticsAt(i) =
                IF ViolatingMemberPairs(i) = {} THEN <<>>
                ELSE <<ExpectedMemberDiagnostic(i)>>

\* a statement with two violating pairs has been checked, and one diagnostic
\* stands for it
C1_Witness ==
    /\ MemberCheckRuns
    /\ \E i \in 1..Len(module) :
          /\ Cardinality(ViolatingMemberPairs(i)) = 2
          /\ Len(MemberDiagnosticsAt(i)) = 1

----------------------------------------------------------------------------
(* C6, C7, C9, C10: the record and the members of a statement *)

\* all specifiers of the statement have one shape
Unmixed(specifiers) ==
    \A j, k \in 1..Len(specifiers) : specifiers[j].kind = specifiers[k].kind

\* the record the classifier rules of the specification give an unmixed
\* statement
UnmixedRecord(specifiers, i) ==
    CASE Len(specifiers) = 0 ->
           ImportIdent("", Span(i, 0), "None")
      [] Len(specifiers) = 1 /\ specifiers[1].kind = "Namespace" ->
           ImportIdent(specifiers[1].local, Span(i, 0), "All")
      [] Len(specifiers) = 1 /\ specifiers[1].kind \in {"Default", "Named"} ->
           ImportIdent(specifiers[1].local, Span(i, 0), "Single")
      [] Len(specifiers) >= 2 ->
           ImportIdent(specifiers[1].local, Span(i, 0), "Multiple")

\* the names of the members the classifier hands to the member-order checker
MemberNames(specifiers, i) ==
    LET vec == ClassifyImportDecl(specifiers, i).import_ident_vec
    IN  [k \in 1..Len(vec) |-> vec[k].import_decl]

\* C6: one record is appended per statement, in source order; an unmixed
\* statement gets (None, "") and no members when it has no specifier,
\* (All, name) for a namespace specifier, (Single, name) for one default or
\* one named specifier, and (Multiple, first named name) for two or more
\* named specifiers, all of which are members in source order.
C6_UnmixedClassification ==
    /\ Len(line_imports) = Len(module)
    /\ \A i \in 1..Len(module) :
          Unmixed(module[i]) =>
             /\ line_imports[i] = UnmixedRecord(module[i], i)
             /\ Len(module[i]) = 0 => MemberNames(module[i], i) = <<>>
             /\ (Len(module[i]) >= 2 /\ module[i][1].kind = "Named") =>
                   MemberNames(module[i], i) =
                       [k \in 1..Len(module[i]) |-> module[i][k].local]

\* a statement of several named specifiers whose first name is not its
\* smallest has been classified
C6_Witness ==
    \E i \in 1..Len(line_imports) :
        /\ Len(module[i]) >= 2
        /\ \A k \in 1..Len(module[i]) : module[i][k].kind = "Named"
        /\ \E k \in 2..Len(module[i]) :
              StrLess(Bytes(module[i][k].local), Bytes(module[i][1].local))
        /\ line_imports[i].import_type = "Multiple"

\* C7: the record's sort key is the first bound local name of the statement
\* in source order, and is empty iff the statement has no specifier.
C7_SortKeyIsFirstBoundName ==
    \A i \in 1..Len(line_imports) :
        /\ line_imports[i].import_decl =
              IF Len(module[i]) = 0 THEN "" ELSE module[i][1].local
        /\ line_imports[i].import_decl = "" <=> Len(module[i]) = 0

\* a default specifier together with at least one named specifier
DefaultWithNamed(specifiers) ==
    PositionsOf(specifiers, "Default") # {} /\ PositionsOf(specifiers, "Named") # {}

\* C9 as claimed: a statement that mixes a default specifier with named
\* specifiers gets the kind and the sort key of the specifier processed last.
C9_LastSpecifierWins ==
    \A i \in 1..Len(line_imports) :
        DefaultWithNamed(module[i]) =>
            LET last == module[i][Len(module[i])]
            IN  /\ line_imports[i].import_decl = last.local
                /\ line_imports[i].import_type =
                      IF last.kind = "Named" THEN "Multiple" ELSE "Single"

\* C9 as amended: a statement with a default specifier followed by named
\* specifiers gets the kind and the sort key of the default specifier,
\* (Single, its bound name), whatever the named specifiers are.
C9_DefaultSpecifierWins ==
    \A i \in 1..Len(line_imports) :
        DefaultWithNamed(module[i]) =>
            LET d == CHOOSE k \in PositionsOf(module[i], "Default") : TRUE
            IN  line_imports[i] =
                    ImportIdent(module[i][d].local, Span(i, 0), "Single")

\* a default specifier followed by two named specifiers, the last of another
\* name, has been classified
C9_Witness ==
    \E i \in 1..Len(line_imports) :
        /\ DefaultWithNamed(module[i])
        /\ Cardinality(PositionsOf(module[i], "Named")) >= 2
        /\ module[i][Len(module[i])].kind = "Named"
        /\ module[i][Len(module[i])].local # module[i][1].local

\* C10 as claimed: a member-order diagnostic lies only in statements whose
\* record has kind Multiple.
C10_OnlyMultipleRecords ==
    \A n \in 1..Len(diagnostics) :
        IsMemberDiagnostic(diagnostics[n]) =>
            line_imports[diagnostics[n].span.stmt].import_type = "Multiple"

\* C10 as amended: a member-order diagnostic lies only in statements with two
\* or more named specifiers; the record of such a statement has kind
\* Multiple, or kind Single when a default specifier precedes them.
C10_OnlySeveralNamed ==
    \A n \in 1..Len(diagnostics) :
        IsMemberDiagnostic(diagnostics[n]) =>
            LET i == diagnostics[n].span.stmt
            IN  /\ Cardinality(PositionsOf(module[i], "Named")) >= 2
                /\ \/ line_imports[i].import_type = "Multiple"
                   \/ /\ line_imports[i].import_type = "Single"
                      /\ module[i][1].kind = "Default"

\* a member-order diagnostic stands in a statement whose record is Single
C10_Witness ==
    \E n \in 1..Len(diagnostics) :
        /\ IsMemberDiagnostic(diagnostics[n])
        /\ line_imports[diagnostics[n].span.stmt].import_type = "Single"

----------------------------------------------------------------------------
(* C2, C3, C5: the statement-order checker *)

\* sort_line_imports has been called
Ended == pc # "visit"

\* records k and k+1 both have a position in the group order
BothPlaced(k) ==
    /\ IsSome(get_member_param_grp_index(options, line_imports[k].import_type))
    /\ IsSome(get_member_param_grp_index(options, line_imports[k + 1].import_type))

\* the position of record k in the group order
GroupPosition(k) ==
    Unwrap(get_member_param_grp_index(options, line_imports[k].import_type))

AlphabeticalDiagnosticsAt(i) ==
    SelectSeq(diagnostics,
              LAMBDA d : IsAlphabeticalDiagnostic(d) /\ d.span = Span(i, 0))

OrderDiagnosticsAt(i) ==
    SelectSeq(diagnostics, LAMBDA d : IsOrderDiagnostic(d) /\ d.span = Span(i, 0))

\* C2: after the rule has run, every adjacent pair of records of one group
\* position has exactly one alphabetical diagnostic at the second record if
\* the second key is strictly less than the first, and none otherwise.
C2_AlphabeticalScan ==
    Ended =>
        \A k \in 1..(Len(line_imports) - 1) :
            (BothPlaced(k) /\ GroupPosition(k) = GroupPosition(k + 1)) =>
                Len(AlphabeticalDiagnosticsAt(k + 1)) =
                    IF StrLess(Key(line_imports[k + 1].import_decl),
                               Key(line_imports[k].import_decl))
                    THEN 1 ELSE 0

\* three records of one group position with strictly descending keys, which
\* the case policy alone makes descending, have been scanned: an alphabetical
\* diagnostic stands at the second and at the third
C2_Witness ==
    /\ pc = "done"
    /\ options.ignore_case
    /\ \E k \in 1..(Len(line_imports) - 2) :
          /\ GroupPosition(k) = GroupPosition(k + 1)
          /\ GroupPosition(k + 1) = GroupPosition(k + 2)
          /\ StrLess(Key(line_imports[k + 1].import_decl),
                     Key(line_imports[k].import_decl))
          /\ StrLess(Key(line_imports[k + 2].import_decl),
                     Key(line_imports[k + 1].import_decl))
          /\ StrLess(Bytes(line_imports[k].import_decl),
                     Bytes(line_imports[k + 1].import_decl))
          /\ Len(AlphabeticalDiagnosticsAt(k + 1)) = 1
          /\ Len(AlphabeticalDiagnosticsAt(k + 2)) = 1

\* the name of a kind in a message
KindName(kind) ==
    CASE kind = "None"     -> "none"
      [] kind = "All"      -> "all"
      [] kind = "Multiple" -> "multiple"
      [] kind = "Single"   -> "single"

\* the group-order diagnostic expected at record k+1
ExpectedOrderDiagnostic(k) ==
    Diagnostic(Span(k + 1, 0), "sort-imports",
               "Expected '" \o KindName(line_imports[k + 1].import_type)
                 \o "' syntax before '" \o KindName(line_imports[k].import_type)
                 \o "' syntax")

\* what C3 says of the pair (k, k+1)
GroupOrderPair(k) ==
    /\ (BothPlaced(k) /\ GroupPosition(k + 1) < GroupPosition(k)) =>
          /\ OrderDiagnosticsAt(k + 1) = <<ExpectedOrderDiagnostic(k)>>
          /\ AlphabeticalDiagnosticsAt(k + 1) = <<>>
    /\ (BothPlaced(k) /\ GroupPosition(k + 1) > GroupPosition(k)) =>
          /\ OrderDiagnosticsAt(k + 1) = <<>>
          /\ AlphabeticalDiagnosticsAt(k + 1) = <<>>
    /\ OrderDiagnosticsAt(k + 1) = <<>> \/ AlphabeticalDiagnosticsAt(k + 1) = <<>>

\* C3: after the rule has run, an adjacent pair whose second record has the
\* lower group position has exactly one "Expected ... before ..." diagnostic
\* at the second record, whatever the keys; a pair whose second record has
\* the higher position has no diagnostic; no pair has both kinds.
C3_GroupOrderScan ==
    Ended => \A k \in 1..(Len(line_imports) - 1) : GroupOrderPair(k)

\* a pair stepping down in the group order with ascending keys has its
\* diagnostic, and a pair stepping up with descending keys has none
C3_Witness ==
    /\ pc = "done"
    /\ \E k \in 1..(Len(line_imports) - 1) :
          /\ GroupPosition(k + 1) < GroupPosition(k)
          /\ StrLess(Key(line_imports[k].import_decl),
                     Key(line_imports[k + 1].import_decl))
          /\ Len(OrderDiagnosticsAt(k + 1)) = 1
    /\ \E k \in 1..(Len(line_imports) - 1) :
          /\ GroupPosition(k + 1) > GroupPosition(k)
          /\ StrLess(Key(line_imports[k + 1].import_decl),
                     Key(line_imports[k].import_decl))
          /\ OrderDiagnosticsAt(k + 1) = <<>>
          /\ AlphabeticalDiagnosticsAt(k + 1) = <<>>

----------------------------------------------------------------------------
(* C4: the order of the diagnostics in the sink *)

\* C4 as claimed: a diagnostic added earlier does not lie in a later
\* statement than one added after it.
C4_AscendingSourceOrder ==
    \A m, n \in 1..Len(diagnostics) :
        m < n => diagnostics[m].span.stmt <= diagnostics[n].span.stmt

\* the run a diagnostic belongs to: the member-order diagnostics are added
\* during the traversal, the alphabetical ones by the first loop of
\* sort_line_imports, the group-order ones by its second loop
Run(d) ==
    CASE IsMemberDiagnostic(d)       -> 1
      [] IsAlphabeticalDiagnostic(d) -> 2
      [] IsOrderDiagnostic(d)        -> 3

\* C4 as amended: the sink receives the member-order diagnostics first, then
\* the alphabetical ones, then the group-order ones, and within each of the
\* three runs the diagnostics lie in strictly ascending statements.
C4_AscendingWithinRuns ==
    \A m, n \in 1..Len(diagnostics) :
        m < n =>
            /\ Run(diagnostics[m]) <= Run(diagnostics[n])
            /\ Run(diagnostics[m]) = Run(diagnostics[n]) =>
                  diagnostics[m].span.stmt < diagnostics[n].span.stmt

\* an alphabetical diagnostic of a later statement was added before a
\* group-order diagnostic of an earlier one
C4_Witness ==
    \E m, n \in 1..Len(diagnostics) :
        /\ m < n
        /\ IsAlphabeticalDiagnostic(diagnostics[m])
        /\ IsOrderDiagnostic(diagnostics[n])
        /\ diagnostics[n].span.stmt < diagnostics[m].span.stmt

----------------------------------------------------------------------------
(* C8: the two flags *)

\* the options with ignore_declaration_sort set the other way
OtherDeclarationSort ==
    [options EXCEPT !.ignore_declaration_sort = ~options.ignore_declaration_sort]

\* some visited statement has members out of order
SomeMembersDisordered ==
    \E i \in 1..Len(module) : ViolatingMemberPairs(i) # {}

\* C8: with ignore_member_sort set the sink holds no member-order
\* diagnostic; and what sort_line_imports does with the accumulated records
\* (the diagnostics it adds, or its abort) is what it does with
\* ignore_declaration_sort set the other way.
C8_OptionGating ==
    /\ options.ignore_member_sort =>
          \A n \in 1..Len(diagnostics) : ~IsMemberDiagnostic(diagnostics[n])
    /\ Ended =>
          /\ StatementDiagnostics =
                sort_line_imports(OtherDeclarationSort, line_imports).added
          /\ (pc = "panicked") =
                sort_line_imports(OtherDeclarationSort, line_imports).panicked

\* with ignore_declaration_sort set, a module with disordered members has
\* been linted: the sink holds statement-order diagnostics and no
\* member-order diagnostic
C8_Witness ==
    /\ options.ignore_declaration_sort
    /\ ~options.ignore_member_sort
    /\ pc = "done"
    /\ SomeMembersDisordered
    /\ StatementDiagnostics # <<>>
    /\ StatementDiagnostics = diagnostics

====
